---- MODULE Spec2Model ----
(***************************************************************************)
(* The interactive overlay engine of the dashboard editor:                 *)
(* components/DashboardCanvas.tsx (annotations, comments, the drag         *)
(* gesture with grid snapping, the z-order operations) with the state the  *)
(* parent, components/Editor.tsx, holds for it.                            *)
(*                                                                         *)
(* Numbers.  Positions are percentages of the container.  Every container  *)
(* size used below divides 100, so the percentage of every whole pixel is  *)
(* a whole number and the arithmetic of the model is the exact (rational)  *)
(* arithmetic of the source; the rounding error of IEEE doubles is not     *)
(* modelled.  A pixel value that is not whole (a percentage taken at one   *)
(* container size and read back at another) is carried as a numerator      *)
(* over 100.                                                               *)
(*                                                                         *)
(* Events.  Each React handler is one action.  Its guard is the handler's  *)
(* own early returns together with the condition under which the JSX       *)
(* renders the control that calls it.  Pointer and click events of several *)
(* pointers may interleave freely.                                         *)
(***************************************************************************)
EXTENDS Integers, Sequences, FiniteSets, TLC

VARIABLES
    annotations,            \* Editor.tsx: annotations (passed down as a prop)
    comments,               \* Editor.tsx: comments (passed down as a prop)
    activeTool,             \* 'none' | 'text' | 'comment'
    selectedAnnotationId,   \* string | null
    activeCommentId,        \* string | null
    isDragging,             \* boolean
    dragStart,              \* {x, y}: client pixels of the pointer-down
    initialAnnPos,          \* {x, y}: percentages of the annotation at pointer-down
    localDragState,         \* {id, x, y} | null: the live position
    dragRectRef,            \* {width, height, left, top} | null: the cached rect
    history,                \* Editor.tsx: GeneratedImage[], newest first
    currentIndex,           \* Editor.tsx: index into history, 0-based as in the source
    level,                  \* Editor.tsx: ComplexityLevel
    style,                  \* Editor.tsx: VisualStyle
    objective,              \* Editor.tsx: the prompt in the textarea
    isLoading,              \* Editor.tsx: boolean
    loadProjectAt,          \* loadProject: "none" | "getProject" (awaiting) | "done"
    pending,                \* handleGenerate / handleEdit in flight: what its closure
                            \* captured and the await it is at, or null
    exportAt,               \* handleExport in flight or finished: what its closure
                            \* captured and where it is, or null
    canvasOps,              \* the drawing calls made on the canvas of the last export
    project,                \* Editor.tsx: Project | null, the record last loaded or saved
    dataSources,            \* Editor.tsx: DataSource[]
    error,                  \* Editor.tsx: string | null, the message on display
    handleManualSaveAt,     \* handleManualSave: "none" | "save" (awaiting) | "timer" |
                            \* "rejected"; isSaving is true unless it is "none"
    connecting,             \* simulateConnection in flight: the closure of the
                            \* onConnect it will call, or null
    projects,               \* db.ts: the object store 'projects' (keyPath id)
    saves,                  \* the createProject / updateProject requests in
                            \* flight, in the order they were issued
    orderIn,                \* ghost: the annotations the operations started from
    commentsIn,             \* ghost: the comments the operations started from
    orderId,                \* ghost: the id the operations are applied to
    orderOps                \* ghost: the operations applied so far

vars == <<annotations, comments, activeTool, selectedAnnotationId, activeCommentId,
          isDragging, dragStart, initialAnnPos, localDragState, dragRectRef,
          history, currentIndex, level, style, objective, isLoading, loadProjectAt,
          pending, exportAt, canvasOps,
          project, dataSources, error, handleManualSaveAt, connecting, projects, saves,
          orderIn, commentsIn, orderId, orderOps>>

canvasVars == <<annotations, comments, activeTool, selectedAnnotationId, activeCommentId,
                isDragging, dragStart, initialAnnPos, localDragState, dragRectRef>>

editorVars ==
    <<history, currentIndex, level, style, objective, isLoading, loadProjectAt, pending>>

exportVars == <<exportAt, canvasOps>>

\* what saveProjectState and its callers read and write besides the above
recordVars == <<project, dataSources, handleManualSaveAt, connecting, projects, saves>>

orderVars == <<orderIn, commentsIn, orderId, orderOps>>

-----------------------------------------------------------------------------
(* Bounds of the model *)

MaxAnnotations == 2

MaxComments == 1

MaxTime == 2

MaxOrderLen == 3

MaxOrderOps == 2

MaxStoreLen == 2

MaxHistory == 3

MaxHistoryOps == 4

MaxSources == 1

(* Program constants *)

GRID_SIZE == 10

-----------------------------------------------------------------------------
(* Values *)

\* null of a string-valued state (selectedAnnotationId, activeCommentId)
null == "null"

\* null of an object-valued state (localDragState, dragRectRef.current)
nullObj == [null |-> TRUE]

Max(a, b) == IF a >= b THEN a ELSE b

Min(a, b) == IF a <= b THEN a ELSE b

\* Date.now(): a wall-clock reading; two calls may read the same value
Times == 1..MaxTime

\* Date.now().toString(): the decimal string of a clock reading
NowString(t) == ToString(t)

\* getBoundingClientRect() of the image container, at the sizes the model uses
Rects ==
    { [width |-> 20, height |-> 20, left |-> 0, top |-> 0],
      [width |-> 20, height |-> 20, left |-> 10, top |-> 0] }

\* clientX / clientY of the pointer and click events the model uses.  A click
\* that a keyboard activation of a button inside the container produces (the
\* fullscreen trigger, the sidebar buttons; none stops propagation) reports
\* (0, 0), which need not lie inside the container's rect.
ClientPoints == { [x |-> 0, y |-> 0], [x |-> 10, y |-> 10] }

Inside(p, rect) ==
    /\ rect.left <= p.x /\ p.x <= rect.left + rect.width
    /\ rect.top <= p.y /\ p.y <= rect.top + rect.height

KeyboardClick == [x |-> 0, y |-> 0]

\* The clicks the container can receive while its rect is `rect`
ClickPoints(rect) == {p \in ClientPoints : Inside(p, rect)} \cup {KeyboardClick}

\* text typed into the input of a selected annotation
Texts == {"Q3"}

\* the ghost log of the operations of a handler, cut off after MaxHistoryOps;
\* a specification that starts from Overflow keeps no log
Overflow == <<"...">>

Logged(op) ==
    IF orderOps = Overflow \/ Len(orderOps) >= MaxHistoryOps
    THEN Overflow
    ELSE Append(orderOps, op)

-----------------------------------------------------------------------------
(* Pure helpers of the source *)

\* Array.prototype.findIndex(a => a.id === id), 1-based; 0 stands for -1
FindIndex(anns, id) ==
    IF \E i \in 1..Len(anns) : anns[i].id = id
    THEN CHOOSE i \in 1..Len(anns) :
            /\ anns[i].id = id
            /\ \A j \in 1..(i - 1) : anns[j].id # id
    ELSE 0

\* [...arr]; splice(index, 1)
RemoveAt(s, i) == SubSeq(s, 1, i - 1) \o SubSeq(s, i + 1, Len(s))

\* [a[i], a[j]] = [a[j], a[i]] on a copy
Swap(s, i, j) == [s EXCEPT ![i] = s[j], ![j] = s[i]]

\* { ...a, ...updates }
Merge(a, updates) ==
    [f \in DOMAIN a \cup DOMAIN updates |->
        IF f \in DOMAIN updates THEN updates[f] ELSE a[f]]

\* Math.round(n / d) for d > 0: the nearest integer, halves towards +infinity
Round(n, d) == (2 * n + d) \div (2 * d)

\* (px / size) * 100
ToPercent(px, size) == (px * 100) \div size

\* Math.max(0, Math.min(100, v))
Clamp(v) == Max(0, Min(100, v))

-----------------------------------------------------------------------------
(* The z-order operations, as functions of the annotations prop: the value   *)
(* passed to onUpdateAnnotations, or the prop itself after an early return   *)

\* bringToFront with the element exchanged with the last one
bringToFront_swapLast(anns, id) ==
    LET index == FindIndex(anns, id) IN
    IF index = 0 \/ index = Len(anns)
    THEN anns
    ELSE Swap(anns, index, Len(anns))

\* bringToFront whose splice removes the successor instead of the element
bringToFront_spliceNext(anns, id) ==
    LET index == FindIndex(anns, id) IN
    IF index = 0 \/ index = Len(anns)
    THEN anns
    ELSE Append(RemoveAt(anns, index + 1), anns[index])

bringToFront(anns, id) ==
    LET index == FindIndex(anns, id) IN
    IF index = 0 \/ index = Len(anns)
    THEN anns
    ELSE Append(RemoveAt(anns, index), anns[index])

\* moveForward that moves the element past every successor
moveForward_toFront(anns, id) ==
    LET index == FindIndex(anns, id) IN
    IF index = 0 \/ index = Len(anns)
    THEN anns
    ELSE Append(RemoveAt(anns, index), anns[index])

\* moveForward that exchanges with the predecessor instead of the successor
moveForward_withPrevious(anns, id) ==
    LET index == FindIndex(anns, id) IN
    IF index = 0 \/ index = Len(anns)
    THEN anns
    ELSE IF index = 1 THEN anns ELSE Swap(anns, index, index - 1)

moveForward(anns, id) ==
    LET index == FindIndex(anns, id) IN
    IF index = 0 \/ index = Len(anns)
    THEN anns
    ELSE Swap(anns, index, index + 1)

\* moveBackward that moves the element behind every predecessor
moveBackward_toBack(anns, id) ==
    LET index == FindIndex(anns, id) IN
    IF index <= 1
    THEN anns
    ELSE <<anns[index]>> \o RemoveAt(anns, index)

moveBackward(anns, id) ==
    LET index == FindIndex(anns, id) IN
    IF index <= 1
    THEN anns
    ELSE Swap(anns, index, index - 1)

\* sendToBack with the element exchanged with the first one
sendToBack_swapFirst(anns, id) ==
    LET index == FindIndex(anns, id) IN
    IF index = 0 \/ index = 1
    THEN anns
    ELSE Swap(anns, index, 1)

sendToBack(anns, id) ==
    LET index == FindIndex(anns, id) IN
    IF index = 0 \/ index = 1
    THEN anns
    ELSE <<anns[index]>> \o RemoveAt(anns, index)

-----------------------------------------------------------------------------
(* The overlay entities *)

\* handleImageClick: the annotation the text tool places
newAnnotation(t, x, y) ==
    [id |-> NowString(t), x |-> x, y |-> y, text |-> "New Text",
     color |-> "#1e3a8a", fontSize |-> 20, fontWeight |-> "bold"]

\* handleImageClick: the comment the comment tool places
newComment(t, ts, x, y) ==
    [id |-> NowString(t), x |-> x, y |-> y, text |-> "", author |-> "You",
     resolved |-> FALSE, timestamp |-> ts]

\* updateAnnotation with the spread the other way round: { ...updates, ...a }
updateAnnotation_spreadReversed(anns, id, updates) ==
    [i \in 1..Len(anns) |->
        IF anns[i].id = id THEN Merge(updates, anns[i]) ELSE anns[i]]

\* annotations.map(a => a.id === id ? { ...a, ...updates } : a)
updateAnnotation(anns, id, updates) ==
    [i \in 1..Len(anns) |->
        IF anns[i].id = id THEN Merge(anns[i], updates) ELSE anns[i]]

\* comments.map(c => c.id === id ? { ...c, text } : c)
updateComment(comms, id, text) ==
    [i \in 1..Len(comms) |->
        IF comms[i].id = id THEN Merge(comms[i], [text |-> text]) ELSE comms[i]]

\* comments.map(c => c.id === id ? { ...c, resolved: !c.resolved } : c)
toggleResolveComment(comms, id) ==
    [i \in 1..Len(comms) |->
        IF comms[i].id = id
        THEN Merge(comms[i], [resolved |-> ~comms[i].resolved])
        ELSE comms[i]]

\* deleteAnnotation with the filter inverted: a.id === id
deleteAnnotation_keepsMatch(anns, id) == SelectSeq(anns, LAMBDA a : a.id = id)

\* annotations.filter(a => a.id !== id)
deleteAnnotation(anns, id) == SelectSeq(anns, LAMBDA a : a.id # id)

\* comments.filter(c => c.id !== id)
deleteComment(comms, id) == SelectSeq(comms, LAMBDA c : c.id # id)

\* the ids of the rendered annotation elements
AnnotationIds == {annotations[i].id : i \in 1..Len(annotations)}

CommentIds == {comments[i].id : i \in 1..Len(comments)}

-----------------------------------------------------------------------------
(* The drag gesture *)

\* handlePointerMove, one axis: the start percentage at the cached size plus
\* the pointer delta, snapped to the grid, back to a clamped percentage
snapped(initialPct, delta, size) ==
    Round(initialPct * size + 100 * delta, 100 * GRID_SIZE) * GRID_SIZE

newPos(initialPct, delta, size) ==
    Clamp(ToPercent(snapped(initialPct, delta, size), size))

\* a commit that writes x and leaves y
commitDrag_xOnly(anns, id, live) ==
    [i \in 1..Len(anns) |->
        IF anns[i].id = id THEN [anns[i] EXCEPT !.x = live.x] ELSE anns[i]]

\* handlePointerUp: the commit of the live position
commitDrag(anns, id, live) ==
    [i \in 1..Len(anns) |->
        IF anns[i].id = id
        THEN [anns[i] EXCEPT !.x = live.x, !.y = live.y]
        ELSE anns[i]]

-----------------------------------------------------------------------------
(* Handlers of DashboardCanvas *)

\* onPointerDown of the annotation element `id`, with the container's rect
handlePointerDown(e, id, rect) ==
    IF activeTool # "none"
    THEN UNCHANGED vars
    ELSE LET ann == annotations[FindIndex(annotations, id)] IN
         /\ dragRectRef' = rect
         /\ isDragging' = TRUE
         /\ selectedAnnotationId' = id
         /\ dragStart' = e
         /\ initialAnnPos' = [x |-> ann.x, y |-> ann.y]
         /\ localDragState' = [id |-> id, x |-> ann.x, y |-> ann.y]
         /\ UNCHANGED <<annotations, comments, activeTool, activeCommentId, orderVars, editorVars, exportVars, recordVars, error>>

\* handlePointerMove that also writes the live position through to the parent
handlePointerMove_commits(e) ==
    IF ~isDragging \/ selectedAnnotationId = null \/ dragRectRef = nullObj
    THEN UNCHANGED vars
    ELSE LET rect == dragRectRef
             newX == newPos(initialAnnPos.x, e.x - dragStart.x, rect.width)
             newY == newPos(initialAnnPos.y, e.y - dragStart.y, rect.height)
             live == [id |-> selectedAnnotationId, x |-> newX, y |-> newY]
         IN
         /\ localDragState' = live
         /\ annotations' = updateAnnotation(annotations, selectedAnnotationId,
                                            [x |-> newX, y |-> newY])
         /\ UNCHANGED <<comments, activeTool, selectedAnnotationId, activeCommentId,
                        isDragging, dragStart, initialAnnPos, dragRectRef, orderVars, editorVars, exportVars, recordVars, error>>

handlePointerMove(e) ==
    IF ~isDragging \/ selectedAnnotationId = null \/ dragRectRef = nullObj
    THEN UNCHANGED vars
    ELSE LET rect == dragRectRef
             deltaX == e.x - dragStart.x
             deltaY == e.y - dragStart.y
             newX == newPos(initialAnnPos.x, deltaX, rect.width)
             newY == newPos(initialAnnPos.y, deltaY, rect.height)
         IN
         /\ localDragState' = [id |-> selectedAnnotationId, x |-> newX, y |-> newY]
         /\ UNCHANGED <<annotations, comments, activeTool, selectedAnnotationId,
                        activeCommentId, isDragging, dragStart, initialAnnPos,
                        dragRectRef, orderVars, editorVars, exportVars, recordVars, error>>

\* handlePointerUp whose catch lets the error of releasePointerCapture escape:
\* the statements after the if are not reached
handlePointerUp_rethrows(releaseThrows) ==
    IF isDragging /\ localDragState # nullObj /\ selectedAnnotationId # null
    THEN /\ annotations' = commitDrag(annotations, selectedAnnotationId, localDragState)
         /\ orderOps' = Logged(IF releaseThrows THEN "releaseThrows" ELSE "release")
         /\ IF releaseThrows
            THEN UNCHANGED <<isDragging, localDragState, dragRectRef>>
            ELSE isDragging' = FALSE /\ localDragState' = nullObj /\ dragRectRef' = nullObj
         /\ UNCHANGED <<comments, activeTool, selectedAnnotationId, activeCommentId,
                        dragStart, initialAnnPos, orderIn, commentsIn, orderId,
                        editorVars, exportVars, recordVars, error>>
    ELSE /\ isDragging' = FALSE
         /\ localDragState' = nullObj
         /\ dragRectRef' = nullObj
         /\ UNCHANGED <<annotations, comments, activeTool, selectedAnnotationId,
                        activeCommentId, dragStart, initialAnnPos, orderVars,
                        editorVars, exportVars, recordVars, error>>

\* handlePointerUp; releasePointerCapture may throw, the catch ignores it and
\* no state records it (the ghost log does)
handlePointerUp(releaseThrows) ==
    IF isDragging /\ localDragState # nullObj /\ selectedAnnotationId # null
    THEN /\ annotations' = commitDrag(annotations, selectedAnnotationId, localDragState)
         /\ orderOps' = Logged(IF releaseThrows THEN "releaseThrows" ELSE "release")
         /\ isDragging' = FALSE
         /\ localDragState' = nullObj
         /\ dragRectRef' = nullObj
         /\ UNCHANGED <<comments, activeTool, selectedAnnotationId, activeCommentId,
                        dragStart, initialAnnPos, orderIn, commentsIn, orderId,
                        editorVars, exportVars, recordVars, error>>
    ELSE /\ isDragging' = FALSE
         /\ localDragState' = nullObj
         /\ dragRectRef' = nullObj
         /\ UNCHANGED <<annotations, comments, activeTool, selectedAnnotationId,
                        activeCommentId, dragStart, initialAnnPos, orderVars,
                        editorVars, exportVars, recordVars, error>>

\* onClick of the container, with the rect it reads and the clock readings
handleImageClick(e, rect, t, ts) ==
    LET x == ToPercent(e.x - rect.left, rect.width)
        y == ToPercent(e.y - rect.top, rect.height)
    IN
    IF isDragging
    THEN UNCHANGED vars
    ELSE IF activeTool = "none"
    THEN /\ selectedAnnotationId' = null
         /\ UNCHANGED <<annotations, comments, activeTool, activeCommentId, isDragging,
                        dragStart, initialAnnPos, localDragState, dragRectRef, orderVars, editorVars, exportVars, recordVars, error>>
    ELSE IF activeTool = "text"
    THEN /\ Len(annotations) < MaxAnnotations
         /\ annotations' = Append(annotations, newAnnotation(t, x, y))
         /\ selectedAnnotationId' = NowString(t)
         /\ activeTool' = "none"
         /\ UNCHANGED <<comments, activeCommentId, isDragging, dragStart, initialAnnPos,
                        localDragState, dragRectRef, orderVars, editorVars, exportVars, recordVars, error>>
    ELSE /\ Len(comments) < MaxComments
         /\ comments' = Append(comments, newComment(t, ts, x, y))
         /\ activeCommentId' = NowString(t)
         /\ activeTool' = "none"
         /\ UNCHANGED <<annotations, selectedAnnotationId, isDragging, dragStart,
                        initialAnnPos, localDragState, dragRectRef, orderVars, editorVars, exportVars, recordVars, error>>

\* onClick of the annotation element `id`
onClickAnnotation(id) ==
    /\ selectedAnnotationId' = id
    /\ UNCHANGED <<annotations, comments, activeTool, activeCommentId, isDragging,
                   dragStart, initialAnnPos, localDragState, dragRectRef, orderVars, editorVars, exportVars, recordVars, error>>

\* onClick of the comment pin `id`
onClickComment(id) ==
    /\ activeCommentId' = id
    /\ UNCHANGED <<annotations, comments, activeTool, selectedAnnotationId, isDragging,
                   dragStart, initialAnnPos, localDragState, dragRectRef, orderVars, editorVars, exportVars, recordVars, error>>

\* the toolbar buttons: setActiveTool(activeTool === tool ? 'none' : tool)
toggleTool(tool) ==
    /\ activeTool' = IF activeTool = tool THEN "none" ELSE tool
    /\ UNCHANGED <<annotations, comments, selectedAnnotationId, activeCommentId,
                   isDragging, dragStart, initialAnnPos, localDragState, dragRectRef,
                   orderVars, editorVars, exportVars, recordVars, error>>

\* what every call of onUpdateAnnotations from a control leaves alone
ControlFrame ==
    UNCHANGED <<comments, activeTool, activeCommentId, isDragging, dragStart,
                initialAnnPos, localDragState, dragRectRef, orderVars, editorVars, exportVars, recordVars, error>>

\* onChange of the input the selected annotation renders
onChangeText(id, text) ==
    /\ selectedAnnotationId = id
    /\ annotations' = updateAnnotation(annotations, id, [text |-> text])
    /\ UNCHANGED selectedAnnotationId
    /\ ControlFrame

\* the stacking and delete buttons, rendered while isSelected && !isDragging
ControlsShown(id) == selectedAnnotationId = id /\ ~isDragging

onBringToFront(id) ==
    /\ ControlsShown(id)
    /\ annotations' = bringToFront(annotations, id)
    /\ UNCHANGED selectedAnnotationId
    /\ ControlFrame

onMoveForward(id) ==
    /\ ControlsShown(id)
    /\ annotations' = moveForward(annotations, id)
    /\ UNCHANGED selectedAnnotationId
    /\ ControlFrame

onMoveBackward(id) ==
    /\ ControlsShown(id)
    /\ annotations' = moveBackward(annotations, id)
    /\ UNCHANGED selectedAnnotationId
    /\ ControlFrame

onSendToBack(id) ==
    /\ ControlsShown(id)
    /\ annotations' = sendToBack(annotations, id)
    /\ UNCHANGED selectedAnnotationId
    /\ ControlFrame

onDeleteAnnotation(id) ==
    /\ ControlsShown(id)
    /\ annotations' = deleteAnnotation(annotations, id)
    /\ selectedAnnotationId' = null
    /\ ControlFrame

\* the delete button of a comment card in the sidebar
onDeleteComment(id) ==
    /\ comments' = deleteComment(comments, id)
    /\ activeCommentId' = IF activeCommentId = id THEN null ELSE activeCommentId
    /\ UNCHANGED <<annotations, activeTool, selectedAnnotationId, isDragging, dragStart,
                   initialAnnPos, localDragState, dragRectRef, orderVars, editorVars, exportVars, recordVars, error>>

-----------------------------------------------------------------------------
(* The editor around the canvas *)

\* ComplexityLevel and VisualStyle: the default of useState and one other
Levels == {"Operational", "Strategic"}

Styles == {"Modern SaaS", "Minimalist"}

\* what the image service returns (base64 data)
Images == {"svgA"}

\* GeneratedImage
newImage(t, data, prompt, ts, lvl, sty) ==
    [id |-> NowString(t), data |-> data, prompt |-> prompt, timestamp |-> ts,
     level |-> lvl, style |-> sty]

\* The record store (the project state of the editor, the object store, the
\* save requests in flight, the data sources) and the error message are
\* written by the editor and read by nothing but its saves and its display.
\* A specification that is not about them starts with the values below and
\* does not follow them: they stay as they are.
NotFollowed == [notFollowed |-> TRUE]

ErrorNotFollowed == "not followed"

Followed == project # NotFollowed

RecordNotFollowed ==
    /\ project = NotFollowed
    /\ dataSources = << >>
    /\ error = ErrorNotFollowed
    /\ handleManualSaveAt = "none"
    /\ connecting = nullObj
    /\ projects = {}
    /\ saves = << >>

\* setError(message)
Shown(message) == IF error = ErrorNotFollowed THEN error ELSE message

\* the editor with one revision on display and no request or export in
\* flight: the state in which the parent renders DashboardCanvas
EditorShowsImage ==
    /\ history = <<newImage(1, "svgA", "kpi", 1, "Operational", "Modern SaaS")>>
    /\ currentIndex = 0
    /\ level = "Operational"
    /\ style = "Modern SaaS"
    /\ objective = "kpi"
    /\ isLoading = FALSE
    /\ loadProjectAt = "none"
    /\ pending = nullObj
    /\ exportAt = nullObj
    /\ canvasOps = << >>
    /\ RecordNotFollowed

-----------------------------------------------------------------------------
(* The canvas: the editor with an image on display and no overlays yet.     *)
(* No log of the operations is kept.                                         *)

Init ==
    /\ annotations = << >>
    /\ comments = << >>
    /\ activeTool = "none"
    /\ selectedAnnotationId = null
    /\ activeCommentId = null
    /\ isDragging = FALSE
    /\ dragStart = [x |-> 0, y |-> 0]
    /\ initialAnnPos = [x |-> 0, y |-> 0]
    /\ localDragState = nullObj
    /\ dragRectRef = nullObj
    /\ orderIn = << >>
    /\ commentsIn = << >>
    /\ orderId = null
    /\ orderOps = Overflow
    /\ EditorShowsImage

onPointerDown ==
    \E e \in ClientPoints, id \in AnnotationIds, rect \in Rects :
        handlePointerDown(e, id, rect)

onPointerMove ==
    /\ annotations # << >>
    /\ \E e \in ClientPoints : handlePointerMove(e)

onPointerUp ==
    /\ annotations # << >>
    /\ \E releaseThrows \in BOOLEAN : handlePointerUp(releaseThrows)

\* onPointerCancel={handlePointerUp}
onPointerCancel ==
    /\ annotations # << >>
    /\ \E releaseThrows \in BOOLEAN : handlePointerUp(releaseThrows)

onImageClick ==
    \E rect \in Rects, t \in Times, ts \in Times :
        \E e \in ClickPoints(rect) : handleImageClick(e, rect, t, ts)

Next ==
    \/ onPointerDown
    \/ onPointerMove
    \/ onPointerCancel
    \/ onPointerUp
    \/ onImageClick
    \/ \E id \in AnnotationIds : onClickAnnotation(id)
    \/ toggleTool("text")
    \/ \E id \in AnnotationIds, text \in Texts : onChangeText(id, text)
    \/ \E id \in AnnotationIds : onBringToFront(id)
    \/ \E id \in AnnotationIds : onMoveForward(id)
    \/ \E id \in AnnotationIds : onMoveBackward(id)
    \/ \E id \in AnnotationIds : onSendToBack(id)
    \/ \E id \in AnnotationIds : onDeleteAnnotation(id)

Spec == Init /\ [][Next]_vars

-----------------------------------------------------------------------------
(* SpecSnap: the snapping arithmetic of handlePointerMove over start         *)
(* positions, container sizes and pointer deltas.  A session is open on one  *)
(* annotation (the state handlePointerDown leaves) and only moves happen.    *)

SnapPercents == {0, 20, 50, 100}

SnapSizes == {20, 25, 50}

SnapRects ==
    { [width |-> w, height |-> h, left |-> 0, top |-> 0] : w \in SnapSizes, h \in SnapSizes }

SnapPoints == { [x |-> px, y |-> py] : px \in {-30, 0, 4, 30}, py \in {-30, 0, 4, 30} }

InitSnap ==
    \E sx \in SnapPercents, sy \in SnapPercents, rect \in SnapRects :
        /\ annotations = <<newAnnotation(1, sx, sy)>>
        /\ comments = << >>
        /\ activeTool = "none"
        /\ selectedAnnotationId = NowString(1)
        /\ activeCommentId = null
        /\ isDragging = TRUE
        /\ dragStart = [x |-> 0, y |-> 0]
        /\ initialAnnPos = [x |-> sx, y |-> sy]
        /\ localDragState = [id |-> NowString(1), x |-> sx, y |-> sy]
        /\ dragRectRef = rect
        /\ orderIn = << >>
        /\ commentsIn = << >>
        /\ orderId = null
        /\ orderOps = << >>
        /\ EditorShowsImage

NextSnap == \E e \in SnapPoints : handlePointerMove(e)

SpecSnap == InitSnap /\ [][NextSnap]_vars

\* SpecRelease: the same open session, with moves and the end of the gesture
\* by pointer-up or pointer-cancel, whose release of the pointer capture may
\* throw; the ghost log records which it was
NextRelease ==
    \/ \E e \in SnapPoints : handlePointerMove(e)
    \/ onPointerUp
    \/ onPointerCancel

SpecRelease == InitSnap /\ [][NextRelease]_vars

-----------------------------------------------------------------------------
(* SpecOrder: the z-order operations as functions, applied to every          *)
(* annotation sequence of pairwise distinct ids up to MaxOrderLen, with an   *)
(* id of the sequence or an id that is not in it.                            *)

OrderTimes == 1..MaxOrderLen

\* an id no annotation of the sequences carries
UnknownId == NowString(MaxOrderLen + 1)

OrderSeqs ==
    UNION { { s \in [1..n -> OrderTimes] : \A i, j \in 1..n : i # j => s[i] # s[j] }
            : n \in 0..MaxOrderLen }

InitOrder ==
    \E s \in OrderSeqs, t \in 1..(MaxOrderLen + 1) :
        /\ annotations = [i \in 1..Len(s) |-> newAnnotation(s[i], 50, 50)]
        /\ orderIn = annotations
        /\ commentsIn = << >>
        /\ orderId = NowString(t)
        /\ orderOps = << >>
        /\ comments = << >>
        /\ activeTool = "none"
        /\ selectedAnnotationId = null
        /\ activeCommentId = null
        /\ isDragging = FALSE
        /\ dragStart = [x |-> 0, y |-> 0]
        /\ initialAnnPos = [x |-> 0, y |-> 0]
        /\ localDragState = nullObj
        /\ dragRectRef = nullObj
        /\ EditorShowsImage

OrderFrame ==
    UNCHANGED <<comments, activeTool, selectedAnnotationId, activeCommentId, isDragging,
                dragStart, initialAnnPos, localDragState, dragRectRef, orderIn, commentsIn,
                orderId, editorVars, exportVars, recordVars, error>>

applyBringToFront ==
    /\ Len(orderOps) < MaxOrderOps
    /\ annotations' = bringToFront(annotations, orderId)
    /\ orderOps' = Append(orderOps, "bringToFront")
    /\ OrderFrame

applyMoveForward ==
    /\ Len(orderOps) < MaxOrderOps
    /\ annotations' = moveForward(annotations, orderId)
    /\ orderOps' = Append(orderOps, "moveForward")
    /\ OrderFrame

applyMoveBackward ==
    /\ Len(orderOps) < MaxOrderOps
    /\ annotations' = moveBackward(annotations, orderId)
    /\ orderOps' = Append(orderOps, "moveBackward")
    /\ OrderFrame

applySendToBack ==
    /\ Len(orderOps) < MaxOrderOps
    /\ annotations' = sendToBack(annotations, orderId)
    /\ orderOps' = Append(orderOps, "sendToBack")
    /\ OrderFrame

NextOrder ==
    \/ applyBringToFront
    \/ applyMoveForward
    \/ applyMoveBackward
    \/ applySendToBack

SpecOrder == InitOrder /\ [][NextOrder]_vars

-----------------------------------------------------------------------------
(* SpecHistory: the revision history of Editor.tsx.  handleGenerate and      *)
(* handleEdit are asynchronous: each is a step that starts it (the closure   *)
(* captures the state of the render it was created in), a step in which the  *)
(* image service settles, and a step in which the save settles and the       *)
(* finally block runs.  loadProject is started by the mount effect when the  *)
(* editor is opened on a stored project and settles in a step of its own.    *)
(* Requests to the one IndexedDB database settle in the order they were      *)
(* issued (overlapping scopes, one of them writing), so a save issued after  *)
(* getProject settles after it.                                              *)

\* history[index] of the source, with its 0-based index
At(h, index) == h[index + 1]

InRange(h, index) == 0 <= index /\ index < Len(h)

Objectives == {"", "kpi"}

EditPrompts == {"kpi"}

\* two readings of Date.now() taken one after the other, in one millisecond
Readings == { <<t, t>> : t \in Times }

\* the record db.getProject resolves with: a project saved with its history,
\* one saved with a thumbnail and an empty history, one with neither
StoredProjects ==
    { [id |-> "p1", prompt |-> "kpi", level |-> "Strategic", style |-> "Minimalist",
       updatedAt |-> 1, thumbnail |-> "svgA", dataSources |-> << >>,
       canvasState |-> [annotations |-> <<newAnnotation(1, 50, 50)>>,
                        comments |-> <<newComment(1, 1, 50, 50)>>],
       history |-> << newImage(2, "svgA", "kpi", 2, "Strategic", "Minimalist"),
                      newImage(1, "svgA", "kpi", 1, "Operational", "Modern SaaS") >>],
      [id |-> "p2", prompt |-> "kpi", level |-> "Operational", style |-> "Minimalist",
       updatedAt |-> 2, thumbnail |-> "svgA", dataSources |-> << >>,
       canvasState |-> [annotations |-> << >>, comments |-> << >>],
       history |-> << >>],
      [id |-> "p3", prompt |-> "", level |-> "Operational", style |-> "Modern SaaS",
       updatedAt |-> 1, thumbnail |-> null, dataSources |-> << >>,
       canvasState |-> [annotations |-> << >>, comments |-> << >>],
       history |-> << >>] }

\* what saveProjectState of the current render reads
SaveClosure ==
    IF Followed
    THEN [project |-> project, objective |-> objective, level |-> level,
          style |-> style, dataSources |-> dataSources, annotations |-> annotations,
          comments |-> comments, history |-> history, currentIndex |-> currentIndex]
    ELSE NotFollowed

\* saveProjectState: !project ? createProject : updateProject
saveOp(c) == IF c.project = nullObj THEN "createProject" ELSE "updateProject"

\* saveProjectState: the record it builds, for a closure c, the newImage
\* argument (null when absent) and the reading of Date.now().  The store is
\* followed in editors opened on a new project, where projectId is null.
projectRecord(c, image, t) ==
    [id |-> IF c.project # nullObj THEN c.project.id ELSE NowString(t),
     title |-> IF c.objective # "" THEN c.objective ELSE "Untitled Dashboard",
     createdAt |-> IF c.project # nullObj THEN c.project.createdAt ELSE t,
     updatedAt |-> t,
     dataSources |-> c.dataSources,
     prompt |-> c.objective,
     level |-> c.level,
     style |-> c.style,
     canvasState |-> [annotations |-> c.annotations, comments |-> c.comments],
     thumbnail |-> IF image # null THEN image
                   ELSE IF InRange(c.history, c.currentIndex)
                   THEN At(c.history, c.currentIndex).data
                   ELSE null,
     history |-> c.history]

\* the request saveProjectState issues and awaits
saveRequest(c, image, t, by) ==
    [op |-> saveOp(c), p |-> projectRecord(c, image, t), by |-> by]

\* store.add rejects when the key is in the store (ConstraintError)
Rejects(req) == req.op = "createProject" /\ \E r \in projects : r.id = req.p.id

\* store.add / store.put of the record under its id
Written(req) ==
    IF Rejects(req)
    THEN projects
    ELSE {r \in projects : r.id # req.p.id} \cup {req.p}

\* the request at the head of the queue settles, and saveProjectState goes on
\* after its await: setProject(p), unless the request was rejected
requestSettles(by) ==
    /\ saves # << >>
    /\ Head(saves).by = by
    /\ saves' = Tail(saves)
    /\ projects' = Written(Head(saves))
    /\ project' = IF Rejects(Head(saves)) THEN project ELSE Head(saves).p

\* what no handler of the editor writes
EditorFrame ==
    UNCHANGED <<activeTool, selectedAnnotationId, activeCommentId, isDragging,
                dragStart, initialAnnPos, localDragState, dragRectRef, orderIn,
                commentsIn, orderId, exportVars>>

\* loadProject after `await db.getProject(id)` resolved with p
loadProjectResolves(p) ==
    /\ loadProjectAt = "getProject"
    /\ loadProjectAt' = "done"
    /\ objective' = p.prompt
    /\ level' = p.level
    /\ style' = p.style
    /\ annotations' = p.canvasState.annotations
    /\ comments' = p.canvasState.comments
    /\ IF Len(p.history) > 0
       THEN history' = p.history /\ currentIndex' = 0
       ELSE IF p.thumbnail # null
       THEN /\ history' = <<newImage(0, p.thumbnail, p.prompt, p.updatedAt,
                                      p.level, p.style)>>
            /\ UNCHANGED currentIndex
       ELSE UNCHANGED <<history, currentIndex>>
    /\ orderOps' = Logged("load")
    /\ IF Followed
       THEN project' = p /\ dataSources' = p.dataSources
       ELSE UNCHANGED <<project, dataSources>>
    /\ UNCHANGED <<isLoading, pending, error, handleManualSaveAt, connecting,
                   projects, saves>>
    /\ EditorFrame

\* loadProject when getProject resolves with undefined or rejects
loadProjectFindsNothing ==
    /\ loadProjectAt = "getProject"
    /\ loadProjectAt' = "done"
    /\ UNCHANGED <<annotations, comments, history, currentIndex, level, style,
                   objective, isLoading, pending, orderOps, recordVars, error>>
    /\ EditorFrame

\* the textarea, the level buttons, the style select
setObjective(text) ==
    /\ objective' = text
    /\ UNCHANGED <<annotations, comments, history, currentIndex, level, style,
                   isLoading, loadProjectAt, pending, orderOps, recordVars, error>>
    /\ EditorFrame

setLevel(l) ==
    /\ level' = l
    /\ UNCHANGED <<annotations, comments, history, currentIndex, style, objective,
                   isLoading, loadProjectAt, pending, orderOps, recordVars, error>>
    /\ EditorFrame

setStyle(st) ==
    /\ style' = st
    /\ UNCHANGED <<annotations, comments, history, currentIndex, level, objective,
                   isLoading, loadProjectAt, pending, orderOps, recordVars, error>>
    /\ EditorFrame

\* handleGenerate up to its first await
handleGenerate ==
    /\ ~isLoading /\ objective # ""
    /\ Len(history) < MaxHistory
    /\ isLoading' = TRUE
    /\ error' = Shown(null)
    /\ pending' = [kind |-> "generate", at |-> "ai", history |-> history,
                   currentIndex |-> currentIndex, level |-> level, style |-> style,
                   prompt |-> objective, closure |-> SaveClosure]
    /\ UNCHANGED <<annotations, comments, history, currentIndex, level, style,
                   objective, loadProjectAt, orderOps, recordVars>>
    /\ EditorFrame

\* handleEdit up to its await: it returns at once when the history is
\* empty; the form is disabled while isEditing
handleEdit(editPrompt) ==
    IF Len(history) = 0
    THEN UNCHANGED vars
    ELSE /\ ~isLoading /\ InRange(history, currentIndex)
         /\ Len(history) < MaxHistory
         /\ isLoading' = TRUE
         /\ pending' = [kind |-> "edit", at |-> "ai", history |-> history,
                        currentIndex |-> currentIndex, level |-> level, style |-> style,
                        prompt |-> editPrompt, closure |-> SaveClosure]
         /\ UNCHANGED <<annotations, comments, history, currentIndex, level, style,
                        objective, loadProjectAt, orderOps, recordVars, error>>
         /\ EditorFrame

\* the revision the handler in flight builds from what its closure captured
pushed(pend, data, t, ts) ==
    IF pend.kind = "generate"
    THEN newImage(t, data, pend.prompt, ts, pend.level, pend.style)
    ELSE Merge(At(pend.history, pend.currentIndex),
               [id |-> NowString(t), data |-> data, prompt |-> pend.prompt,
                timestamp |-> ts])

\* a push that appends: [...history, newImage]
pushNewest_append(entry, h) == h \o <<entry>>

\* newHistory = [newImage, ...history]
pushNewest(entry, h) == <<entry>> \o h

\* the image service resolved: setHistory(newHistory); setCurrentIndex(0);
\* then saveProjectState(base64) of the handler's render is called and awaited
imageResolves(data, t, ts) ==
    /\ pending # nullObj /\ pending.at = "ai"
    /\ history' = pushNewest(pushed(pending, data, t, ts), pending.history)
    /\ currentIndex' = 0
    /\ pending' = [pending EXCEPT !.at = "save"]
    /\ IF Followed
       THEN /\ saves' = Append(saves, saveRequest(pending.closure, data, ts, "generate"))
            /\ orderOps' = Logged(saveOp(pending.closure))
       ELSE /\ orderOps' = Logged("push")
            /\ UNCHANGED saves
    /\ UNCHANGED <<annotations, comments, level, style, objective, isLoading,
                   loadProjectAt, project, dataSources, error, handleManualSaveAt,
                   connecting, projects>>
    /\ EditorFrame

\* err.message of the image service (lib/gemini.ts) and of a rejected add
AiErrorMessage(kind) ==
    IF kind = "generate" THEN "Dashboard generation failed" ELSE "Edit failed"

SaveErrorMessage == "Key already exists in the object store."

\* a rejection that is caught and not shown
imageRejects_silent ==
    /\ pending # nullObj /\ pending.at = "ai"
    /\ isLoading' = FALSE
    /\ pending' = nullObj
    /\ UNCHANGED <<annotations, comments, history, currentIndex, level, style,
                   objective, loadProjectAt, orderOps, recordVars, error>>
    /\ EditorFrame

\* the image service rejected: catch (setError), then finally
imageRejects ==
    /\ pending # nullObj /\ pending.at = "ai"
    /\ error' = Shown(AiErrorMessage(pending.kind))
    /\ isLoading' = FALSE
    /\ pending' = nullObj
    /\ UNCHANGED <<annotations, comments, history, currentIndex, level, style,
                   objective, loadProjectAt, orderOps, recordVars>>
    /\ EditorFrame

\* the save of the handler settled: on a rejection catch (setError); finally
saveSettles ==
    /\ pending # nullObj /\ pending.at = "save"
    /\ loadProjectAt # "getProject"
    /\ isLoading' = FALSE
    /\ pending' = nullObj
    /\ IF Followed
       THEN /\ requestSettles("generate")
            /\ error' = IF Rejects(Head(saves)) THEN SaveErrorMessage ELSE error
            /\ UNCHANGED <<dataSources, handleManualSaveAt, connecting>>
       ELSE UNCHANGED <<recordVars, error>>
    /\ UNCHANGED <<annotations, comments, history, currentIndex, level, style,
                   objective, loadProjectAt, orderOps>>
    /\ EditorFrame

\* a jump that shows the revision without the overlays drawn on another one
jumpTo_clearsOverlays(index) ==
    /\ currentIndex' = index
    /\ IF InRange(history, index)
       THEN style' = At(history, index).style /\ level' = At(history, index).level
       ELSE UNCHANGED <<style, level>>
    /\ annotations' = << >>
    /\ comments' = << >>
    /\ UNCHANGED <<history, objective, isLoading, loadProjectAt, pending, recordVars,
                   error>>
    /\ EditorFrame

\* handleJumpToHistory without the ghost log
jumpTo(index) ==
    /\ currentIndex' = index
    /\ IF InRange(history, index)
       THEN style' = At(history, index).style /\ level' = At(history, index).level
       ELSE UNCHANGED <<style, level>>
    /\ UNCHANGED <<annotations, comments, history, objective, isLoading,
                   loadProjectAt, pending, recordVars, error>>
    /\ EditorFrame

handleJumpToHistory(index) ==
    /\ jumpTo(index)
    /\ orderOps' = Logged("jump")

\* canUndo with the bound one too far
canUndo_offByOne == currentIndex < Len(history)

canUndo == currentIndex < Len(history) - 1

\* canRedo that lets the newest revision step on
canRedo_offByOne == currentIndex >= 0

canRedo == currentIndex > 0

\* the controls below are rendered with the canvas, when history.length > 0
CanvasRendered == Len(history) > 0

\* the Previous Version button: disabled, and without effect, unless canUndo
onUndo ==
    /\ CanvasRendered
    /\ IF canUndo
       THEN jumpTo(currentIndex + 1) /\ orderOps' = Logged("older")
       ELSE UNCHANGED vars

\* the Next Version button: disabled, and without effect, unless canRedo
onRedo ==
    /\ CanvasRendered
    /\ IF canRedo
       THEN jumpTo(currentIndex - 1) /\ orderOps' = Logged("newer")
       ELSE UNCHANGED vars

\* a thumbnail of the history strip: history.map((h, i) => ...)
onJumpToHistory ==
    /\ CanvasRendered
    /\ \E i \in 0..(Len(history) - 1) : handleJumpToHistory(i)

\* the editor as mounted: on a new project (projectId null) or on a stored
\* one, with getProject in flight
EditorMounted ==
    /\ annotations = << >>
    /\ comments = << >>
    /\ activeTool = "none"
    /\ selectedAnnotationId = null
    /\ activeCommentId = null
    /\ isDragging = FALSE
    /\ dragStart = [x |-> 0, y |-> 0]
    /\ initialAnnPos = [x |-> 0, y |-> 0]
    /\ localDragState = nullObj
    /\ dragRectRef = nullObj
    /\ history = << >>
    /\ currentIndex = 0
    /\ level = "Operational"
    /\ style = "Modern SaaS"
    /\ objective = ""
    /\ isLoading = FALSE
    /\ loadProjectAt \in {"none", "getProject"}
    /\ pending = nullObj
    /\ exportAt = nullObj
    /\ canvasOps = << >>
    /\ orderIn = << >>
    /\ commentsIn = << >>
    /\ orderId = null

\* without the ghost log
InitHistory == EditorMounted /\ RecordNotFollowed /\ orderOps = Overflow

NextHistory ==
    \/ \E p \in StoredProjects : loadProjectResolves(p)
    \/ loadProjectFindsNothing
    \/ \E text \in Objectives : setObjective(text)
    \/ \E l \in Levels : setLevel(l)
    \/ \E st \in Styles : setStyle(st)
    \/ handleGenerate
    \/ \E editPrompt \in EditPrompts : handleEdit(editPrompt)
    \/ \E data \in Images, r \in Readings : imageResolves(data, r[1], r[2])
    \/ imageRejects
    \/ saveSettles
    \/ onUndo
    \/ onRedo
    \/ onJumpToHistory

SpecHistory == InitHistory /\ [][NextHistory]_vars

\* SpecTrace: the same editor with the ghost log kept, up to the step that
\* would cut it off
InitTrace == EditorMounted /\ RecordNotFollowed /\ orderOps = << >>

Tracing == orderOps # Overflow

NextTrace ==
    \/ Tracing /\ \E p \in StoredProjects : loadProjectResolves(p)
    \/ Tracing /\ loadProjectFindsNothing
    \/ Tracing /\ \E text \in Objectives : setObjective(text)
    \/ Tracing /\ \E l \in Levels : setLevel(l)
    \/ Tracing /\ \E st \in Styles : setStyle(st)
    \/ Tracing /\ handleGenerate
    \/ Tracing /\ \E editPrompt \in EditPrompts : handleEdit(editPrompt)
    \/ Tracing /\ \E data \in Images, r \in Readings : imageResolves(data, r[1], r[2])
    \/ Tracing /\ imageRejects
    \/ Tracing /\ saveSettles
    \/ Tracing /\ onUndo
    \/ Tracing /\ onRedo
    \/ Tracing /\ onJumpToHistory

SpecTrace == InitTrace /\ [][NextTrace]_vars

-----------------------------------------------------------------------------
(* SpecJump: handleJumpToHistory as a function of its argument, called on    *)
(* an editor with any history of one or two revisions and any index from     *)
(* one below to one above the range of MaxHistory.                           *)

JumpEntries ==
    { newImage(1, "svgA", "kpi", 1, "Operational", "Modern SaaS"),
      newImage(2, "svgA", "kpi", 2, "Strategic", "Minimalist") }

JumpHistories == UNION { [1..n -> JumpEntries] : n \in 1..2 }

JumpIndices == (0 - 1)..MaxHistory

InitJump ==
    \E h \in JumpHistories :
        /\ history = h
        /\ currentIndex \in {i \in 0..1 : i = 0 \/ InRange(h, i)}
        /\ level \in Levels
        /\ style \in Styles
        /\ objective = "kpi"
        /\ isLoading = FALSE
        /\ loadProjectAt = "none"
        /\ pending = nullObj
        /\ annotations = << >>
        /\ comments = << >>
        /\ activeTool = "none"
        /\ selectedAnnotationId = null
        /\ activeCommentId = null
        /\ isDragging = FALSE
        /\ dragStart = [x |-> 0, y |-> 0]
        /\ initialAnnPos = [x |-> 0, y |-> 0]
        /\ localDragState = nullObj
        /\ dragRectRef = nullObj
        /\ exportAt = nullObj
        /\ canvasOps = << >>
        /\ orderIn = << >>
        /\ commentsIn = << >>
        /\ orderId = null
        /\ orderOps = << >>
        /\ RecordNotFollowed

NextJump == \E index \in JumpIndices : handleJumpToHistory(index)

SpecJump == InitJump /\ [][NextJump]_vars

-----------------------------------------------------------------------------
(* SpecSave: the editor opened on a new project, with the record store       *)
(* followed.  saveProjectState is called by the Save Version button, by      *)
(* handleConnectSource and handleDeleteSource (not awaited) and by           *)
(* handleGenerate and handleEdit (awaited); it reads the state of the render *)
(* its caller was created in.  The requests to the object store settle in    *)
(* the order they were issued.  db.addDataSource writes another object store *)
(* and is left out.  The ghost log records the createProject and             *)
(* updateProject calls and the navigation; the run ends where the log would  *)
(* be cut off.                                                               *)

\* the DataSource simulateConnection builds
newSource(t) ==
    [id |-> NowString(t), type |-> "FILE_UPLOAD", name |-> "sales.csv",
     status |-> "CONNECTED"]

\* what every handler below leaves alone
SaveFrame ==
    /\ UNCHANGED <<annotations, comments, editorVars>>
    /\ EditorFrame

\* the Save Version button, disabled while isSaving: handleManualSave up to
\* its await
handleManualSave(t) ==
    /\ handleManualSaveAt = "none"
    /\ handleManualSaveAt' = "save"
    /\ saves' = Append(saves, saveRequest(SaveClosure, null, t, "manual"))
    /\ orderOps' = Logged(saveOp(SaveClosure))
    /\ UNCHANGED <<project, dataSources, error, connecting, projects>>
    /\ SaveFrame

\* the save of handleManualSave settled: the timer is set, unless the
\* request was rejected (nothing catches it and isSaving stays true)
manualSaveSettles ==
    /\ handleManualSaveAt = "save"
    /\ requestSettles("manual")
    /\ handleManualSaveAt' = IF Rejects(Head(saves)) THEN "rejected" ELSE "timer"
    /\ UNCHANGED <<dataSources, error, connecting, orderOps>>
    /\ SaveFrame

\* setTimeout(() => setIsSaving(false), 800)
savingTimerFires ==
    /\ handleManualSaveAt = "timer"
    /\ handleManualSaveAt' = "none"
    /\ UNCHANGED <<project, dataSources, error, connecting, projects, saves, orderOps>>
    /\ SaveFrame

\* a connector of the data modal is chosen: simulateConnection runs with the
\* onConnect of the render it was started in
simulateConnection ==
    /\ connecting = nullObj
    /\ Len(dataSources) < MaxSources
    /\ connecting' = SaveClosure
    /\ UNCHANGED <<project, dataSources, error, handleManualSaveAt, projects, saves,
                   orderOps>>
    /\ SaveFrame

\* simulateConnection has finished its delays: handleConnectSource(newSource)
handleConnectSource(source) ==
    /\ connecting # nullObj
    /\ dataSources' = Append(connecting.dataSources, source)
    /\ saves' = Append(saves, saveRequest(connecting, null, 1, "source"))
    /\ orderOps' = Logged(saveOp(connecting))
    /\ connecting' = nullObj
    /\ UNCHANGED <<project, error, handleManualSaveAt, projects>>
    /\ SaveFrame

\* the remove button of a data source
handleDeleteSource(id, t) ==
    /\ dataSources' = SelectSeq(dataSources, LAMBDA ds : ds.id # id)
    /\ saves' = Append(saves, saveRequest(SaveClosure, null, t, "source"))
    /\ orderOps' = Logged(saveOp(SaveClosure))
    /\ UNCHANGED <<project, error, handleManualSaveAt, connecting, projects>>
    /\ SaveFrame

\* the save of handleConnectSource or handleDeleteSource settled; a
\* rejection is caught by nothing
sourceSaveSettles ==
    /\ requestSettles("source")
    /\ UNCHANGED <<dataSources, error, handleManualSaveAt, connecting, orderOps>>
    /\ SaveFrame

\* the close button of the error banner, shown while error && !isLoading
dismissError ==
    /\ error # null /\ ~isLoading
    /\ error' = null
    /\ UNCHANGED <<recordVars, orderOps>>
    /\ SaveFrame

\* the text tool places an annotation on the image
placeText ==
    /\ CanvasRendered
    /\ activeTool = "text"
    /\ annotations = << >>
    /\ handleImageClick([x |-> 10, y |-> 10],
                        [width |-> 20, height |-> 20, left |-> 0, top |-> 0], 1, 1)

InitSave ==
    /\ EditorMounted
    /\ loadProjectAt = "none"
    /\ project = nullObj
    /\ dataSources = << >>
    /\ error = null
    /\ handleManualSaveAt = "none"
    /\ connecting = nullObj
    /\ projects = {}
    /\ saves = << >>
    /\ orderOps = << >>

NextSave ==
    \/ Tracing /\ setObjective("kpi")
    \/ Tracing /\ handleGenerate
    \/ Tracing /\ \E editPrompt \in EditPrompts : handleEdit(editPrompt)
    \/ Tracing /\ \E data \in Images : imageResolves(data, 1, 1)
    \/ Tracing /\ imageRejects
    \/ Tracing /\ saveSettles
    \/ Tracing /\ handleManualSave(MaxTime)
    \/ Tracing /\ manualSaveSettles
    \/ Tracing /\ savingTimerFires
    \/ Tracing /\ simulateConnection
    \/ Tracing /\ handleConnectSource(newSource(1))
    \/ Tracing /\ \E i \in 1..Len(dataSources) : handleDeleteSource(dataSources[i].id, 1)
    \/ Tracing /\ sourceSaveSettles
    \/ Tracing /\ dismissError
    \/ Tracing /\ CanvasRendered /\ toggleTool("text")
    \/ Tracing /\ placeText
    \/ Tracing /\ onUndo
    \/ Tracing /\ onRedo

SpecSave == InitSave /\ [][NextSave]_vars

-----------------------------------------------------------------------------
(* SpecStore: the update and remove operations of the overlay store as       *)
(* functions, applied once to every pair of an annotation and a comment      *)
(* sequence of pairwise distinct ids up to MaxStoreLen, with an id that is   *)
(* in the sequences or in neither.                                           *)

StoreTimes == 1..MaxStoreLen

StoreIdSeqs ==
    UNION { { s \in [1..n -> StoreTimes] : \A i, j \in 1..n : i # j => s[i] # s[j] }
            : n \in 0..MaxStoreLen }

\* the argument of the updateAnnotation calls of the controls: the text
\* input, the colour picker, the italic toggle (fontStyle is optional and
\* absent from a new annotation)
AnnotationUpdates ==
    { [text |-> "Q3"], [color |-> "#ff0000"], [fontStyle |-> "italic"] }

\* the live position a commit writes
StoreLive(id) == [id |-> id, x |-> 0, y |-> 100]

InitStore ==
    \E s \in StoreIdSeqs, c \in StoreIdSeqs, t \in 1..(MaxStoreLen + 1) :
        \E res \in [1..Len(c) -> BOOLEAN] :
            /\ annotations = [i \in 1..Len(s) |-> newAnnotation(s[i], 50, 50)]
            /\ comments = [i \in 1..Len(c) |->
                              [newComment(c[i], c[i], 50, 50) EXCEPT !.resolved = res[i]]]
            /\ orderIn = annotations
            /\ commentsIn = comments
            /\ orderId = NowString(t)
            /\ orderOps = << >>
            /\ activeTool = "none"
            /\ selectedAnnotationId = null
            /\ activeCommentId = null
            /\ isDragging = FALSE
            /\ dragStart = [x |-> 0, y |-> 0]
            /\ initialAnnPos = [x |-> 0, y |-> 0]
            /\ localDragState = nullObj
            /\ dragRectRef = nullObj
            /\ EditorShowsImage

StoreFrame ==
    UNCHANGED <<activeTool, selectedAnnotationId, activeCommentId, isDragging,
                dragStart, initialAnnPos, localDragState, dragRectRef, orderIn,
                commentsIn, orderId, editorVars, exportVars, recordVars, error>>

applyUpdateAnnotation(updates) ==
    /\ orderOps = << >>
    /\ annotations' = updateAnnotation(annotations, orderId, updates)
    /\ orderOps' = <<"updateAnnotation">>
    /\ UNCHANGED comments
    /\ StoreFrame

\* the commit of handlePointerUp on a target that may be gone
applyCommitDrag ==
    /\ orderOps = << >>
    /\ annotations' = commitDrag(annotations, orderId, StoreLive(orderId))
    /\ orderOps' = <<"commitDrag">>
    /\ UNCHANGED comments
    /\ StoreFrame

applyUpdateComment(text) ==
    /\ orderOps = << >>
    /\ comments' = updateComment(comments, orderId, text)
    /\ orderOps' = <<"updateComment">>
    /\ UNCHANGED annotations
    /\ StoreFrame

applyToggleResolveComment ==
    /\ orderOps = << >>
    /\ comments' = toggleResolveComment(comments, orderId)
    /\ orderOps' = <<"toggleResolveComment">>
    /\ UNCHANGED annotations
    /\ StoreFrame

applyDeleteAnnotation ==
    /\ orderOps = << >>
    /\ annotations' = deleteAnnotation(annotations, orderId)
    /\ orderOps' = <<"deleteAnnotation">>
    /\ UNCHANGED comments
    /\ StoreFrame

applyDeleteComment ==
    /\ orderOps = << >>
    /\ comments' = deleteComment(comments, orderId)
    /\ orderOps' = <<"deleteComment">>
    /\ UNCHANGED annotations
    /\ StoreFrame

NextStore ==
    \/ \E updates \in AnnotationUpdates : applyUpdateAnnotation(updates)
    \/ applyCommitDrag
    \/ \E text \in Texts : applyUpdateComment(text)
    \/ applyToggleResolveComment
    \/ applyDeleteAnnotation
    \/ applyDeleteComment

SpecStore == InitStore /\ [][NextStore]_vars

-----------------------------------------------------------------------------
(* SpecExport: handleExport and generateCanvas.  The export is asynchronous: *)
(* a step that starts it (the closure captures the image and the             *)
(* annotations of the render it was created in) and a step in which the      *)
(* image has loaded and the canvas is drawn.  Each export draws on a canvas  *)
(* of its own; the model follows the latest one.  The store may change       *)
(* while the image loads.  The image element may also fail to load: only     *)
(* onload is assigned, so its error event runs no code of the program.       *)

ExportFormats == {"png", "jpg", "pdf"}

\* img.naturalWidth, img.naturalHeight
NaturalSizes == { [width |-> 400, height |-> 300], [width |-> 800, height |-> 600] }

\* ctx.fillText(ann.text, x, y) with the font and the fill style set before it
fillText(ann, size) ==
    [op |-> "fillText",
     text |-> ann.text,
     x |-> (ann.x * size.width) \div 100,
     y |-> (ann.y * size.height) \div 100,
     font |-> [style |-> IF "fontStyle" \in DOMAIN ann THEN ann.fontStyle ELSE "normal",
               weight |-> IF "fontWeight" \in DOMAIN ann THEN ann.fontWeight ELSE "normal",
               size |-> Max(12, (ann.fontSize * size.width) \div 800)],
     fillStyle |-> ann.color]

\* generateCanvas that walks the annotations from the top of the stack down
generateCanvas_topFirst(fillBackground, img, anns, size) ==
    (IF fillBackground
     THEN << [op |-> "fillRect", fillStyle |-> "#ffffff", x |-> 0, y |-> 0,
              width |-> size.width, height |-> size.height] >>
     ELSE << >>)
    \o << [op |-> "drawImage", data |-> img.data, x |-> 0, y |-> 0] >>
    \o [i \in 1..Len(anns) |-> fillText(anns[Len(anns) + 1 - i], size)]

\* generateCanvas after img.onload: the drawing calls, in the order made
generateCanvas(fillBackground, img, anns, size) ==
    (IF fillBackground
     THEN << [op |-> "fillRect", fillStyle |-> "#ffffff", x |-> 0, y |-> 0,
              width |-> size.width, height |-> size.height] >>
     ELSE << >>)
    \o << [op |-> "drawImage", data |-> img.data, x |-> 0, y |-> 0] >>
    \o [i \in 1..Len(anns) |-> fillText(anns[i], size)]

ExportFrame ==
    UNCHANGED <<annotations, comments, activeTool, selectedAnnotationId,
                activeCommentId, isDragging, dragStart, initialAnnPos, localDragState,
                dragRectRef, orderVars, editorVars, recordVars, error>>

\* handleExport up to the await of img.onload, or to the catch when the
\* canvas has no 2d context
handleExport(format, hasContext) ==
    /\ IF exportAt = nullObj
       THEN TRUE
       ELSE ~(exportAt.at = "load" /\ exportAt.img = "loading")
    /\ exportAt' = [at |-> IF hasContext THEN "load" ELSE "failed",
                    img |-> IF hasContext THEN "loading" ELSE "none",
                    format |-> format,
                    fillBackground |-> format \in {"jpg", "pdf"},
                    image |-> At(history, currentIndex),
                    annotations |-> annotations]
    /\ UNCHANGED canvasOps
    /\ ExportFrame

\* img.onload: the canvas takes the natural size and is drawn
exportImageLoads(size) ==
    /\ exportAt # nullObj /\ exportAt.at = "load" /\ exportAt.img = "loading"
    /\ canvasOps' = generateCanvas(exportAt.fillBackground, exportAt.image,
                                   exportAt.annotations, size)
    /\ exportAt' = Merge(exportAt, [at |-> "done", img |-> "loaded", size |-> size])
    /\ ExportFrame

\* the error event of the image element (a decode error, a failed request):
\* no handler is assigned, the promise generateCanvas awaits stays unsettled
\* and handleExport stays at its await
exportImageFails ==
    /\ exportAt # nullObj /\ exportAt.at = "load" /\ exportAt.img = "loading"
    /\ exportAt' = Merge(exportAt, [img |-> "error"])
    /\ UNCHANGED canvasOps
    /\ ExportFrame

\* an annotation as placed and edited: its own text and position
placedAnnotation(t) ==
    Merge(newAnnotation(t, 20 * t, 10 * t), [text |-> NowString(t)])

InitExport ==
    \E s \in StoreIdSeqs, c \in StoreIdSeqs, t \in StoreTimes :
        /\ annotations = [i \in 1..Len(s) |-> placedAnnotation(s[i])]
        /\ comments = [i \in 1..Len(c) |->
                          Merge(newComment(c[i], c[i], 50, 50), [text |-> "check"])]
        /\ orderIn = annotations
        /\ commentsIn = comments
        /\ orderId = NowString(t)
        /\ orderOps = << >>
        /\ activeTool = "none"
        /\ selectedAnnotationId = null
        /\ activeCommentId = null
        /\ isDragging = FALSE
        /\ dragStart = [x |-> 0, y |-> 0]
        /\ initialAnnPos = [x |-> 0, y |-> 0]
        /\ localDragState = nullObj
        /\ dragRectRef = nullObj
        /\ EditorShowsImage

NextExport ==
    \/ \E format \in ExportFormats, hasContext \in BOOLEAN : handleExport(format, hasContext)
    \/ \E size \in NaturalSizes : exportImageLoads(size)
    \/ exportImageFails
    \/ applyDeleteAnnotation

SpecExport == InitExport /\ [][NextExport]_vars

-----------------------------------------------------------------------------
(* Properties of the drag gesture (Spec) *)

\* the committed placement of every annotation: its id and position, in order
Committed(anns) == [i \in 1..Len(anns) |-> <<anns[i].id, anns[i].x, anns[i].y>>]

\* every field of an annotation other than its position
SameButPosition(a, b) ==
    /\ DOMAIN a = DOMAIN b
    /\ \A f \in DOMAIN a \ {"x", "y"} : a[f] = b[f]

\* C1: when an active drag ends with a pointer-cancel event, the session is
\* discarded and the committed annotation sequence is left unchanged, whatever
\* moves came before.
C1_CancelDiscardsWithoutCommit ==
    [][(isDragging /\ onPointerCancel) =>
          /\ annotations' = annotations
          /\ ~isDragging' /\ localDragState' = nullObj /\ dragRectRef' = nullObj]_vars

\* C2: a pointer-move never changes the committed annotation sequence, and as
\* long as the session stays open across a step no committed id, position or
\* order changes: the drag writes the store only in the step that ends it.
C2_MovesDoNotCommit ==
    [][/\ onPointerMove => annotations' = annotations
       /\ (isDragging /\ isDragging') => Committed(annotations') = Committed(annotations)]_vars

\* C2 witness: a session whose live position has left the committed position
\* of the annotation it shows as dragged.
C2_Witness ==
    /\ isDragging
    /\ localDragState # nullObj
    /\ \E i \in 1..Len(annotations) :
          /\ annotations[i].id = localDragState.id
          /\ <<annotations[i].x, annotations[i].y>> # <<localDragState.x, localDragState.y>>

C4_PointerDownKeepsSession ==
    [][(isDragging /\ onPointerDown) =>
          UNCHANGED <<localDragState, dragStart, initialAnnPos, dragRectRef>>]_vars

\* C5: every annotation and every comment has x and y within [0, 100] in
\* every reachable state.
C5_PositionsInRange ==
    /\ \A i \in 1..Len(annotations) :
          /\ 0 <= annotations[i].x /\ annotations[i].x <= 100
          /\ 0 <= annotations[i].y /\ annotations[i].y <= 100
    /\ \A i \in 1..Len(comments) :
          /\ 0 <= comments[i].x /\ comments[i].x <= 100
          /\ 0 <= comments[i].y /\ comments[i].y <= 100

-----------------------------------------------------------------------------
(* Properties of the snapping arithmetic (SpecSnap) *)

\* a percentage that, at `size` pixels, is a whole multiple of the grid
OnGrid(pct, size) == (pct * size) % (100 * GRID_SIZE) = 0

\* C6: the live position a move computes lies in [0, 100] on both axes and,
\* in pixels at the cached container size, is an exact multiple of the grid
\* size, also when the raw position was clamped.
C6_LiveOnGridInRange ==
    [][/\ 0 <= localDragState'.x /\ localDragState'.x <= 100
       /\ 0 <= localDragState'.y /\ localDragState'.y <= 100
       /\ OnGrid(localDragState'.x, dragRectRef.width)
       /\ OnGrid(localDragState'.y, dragRectRef.height)]_vars

-----------------------------------------------------------------------------
(* Properties of the z-order operations (SpecOrder) *)

Ids(anns) == {anns[i].id : i \in 1..Len(anns)}

\* the sequence without the annotation `id`
Others(anns, id) == SelectSeq(anns, LAMBDA a : a.id # id)

\* C7: bringToFront(id) puts the annotation last and keeps the relative order
\* of all others; an id that is already last or unknown leaves the sequence
\* unchanged.
C7_BringToFront ==
    orderOps = <<"bringToFront">> =>
        IF orderId \notin Ids(orderIn) \/ orderIn[Len(orderIn)].id = orderId
        THEN annotations = orderIn
        ELSE /\ Len(annotations) = Len(orderIn)
             /\ annotations[Len(annotations)] = orderIn[FindIndex(orderIn, orderId)]
             /\ Others(annotations, orderId) = Others(orderIn, orderId)

\* C7 witness: the first of three annotations was brought to the front.
C7_Witness ==
    /\ orderOps = <<"bringToFront">>
    /\ Len(orderIn) = 3
    /\ orderIn[1].id = orderId
    /\ annotations[3].id = orderId

\* C8: sendToBack(id) puts the annotation at index 0 and keeps the relative
\* order of all others; an id that is already first or unknown leaves the
\* sequence unchanged.
C8_SendToBack ==
    orderOps = <<"sendToBack">> =>
        IF orderId \notin Ids(orderIn) \/ orderIn[1].id = orderId
        THEN annotations = orderIn
        ELSE /\ Len(annotations) = Len(orderIn)
             /\ annotations[1] = orderIn[FindIndex(orderIn, orderId)]
             /\ Others(annotations, orderId) = Others(orderIn, orderId)

\* C8 witness: the last of three annotations was sent to the back.
C8_Witness ==
    /\ orderOps = <<"sendToBack">>
    /\ Len(orderIn) = 3
    /\ orderIn[3].id = orderId
    /\ annotations[1].id = orderId

\* the sequence with the elements at i and j exchanged and no other index changed
Exchanged(out, in, i, j) ==
    /\ Len(out) = Len(in)
    /\ out[i] = in[j]
    /\ out[j] = in[i]
    /\ \A k \in 1..Len(in) : k \notin {i, j} => out[k] = in[k]

\* C9: moveForward(id) exchanges the annotation with its immediate successor
\* and moveBackward(id) with its immediate predecessor, changing no other
\* index; moveForward on the last, moveBackward on the first and either one
\* on an unknown id leave the sequence unchanged.
C9_MoveForwardBackward ==
    LET at == FindIndex(orderIn, orderId) IN
    /\ orderOps = <<"moveForward">> =>
          IF at = 0 \/ at = Len(orderIn)
          THEN annotations = orderIn
          ELSE Exchanged(annotations, orderIn, at, at + 1)
    /\ orderOps = <<"moveBackward">> =>
          IF at = 0 \/ at = 1
          THEN annotations = orderIn
          ELSE Exchanged(annotations, orderIn, at, at - 1)

\* C9 witness: the first of three annotations was moved forward by one.
C9_Witness ==
    /\ orderOps = <<"moveForward">>
    /\ Len(orderIn) = 3
    /\ orderIn[1].id = orderId
    /\ annotations[2].id = orderId

\* C10: bringToFront(id) followed by sendToBack(id), for an id of the
\* sequence, leaves all other annotations in their original relative order.
C10_FrontThenBackKeepsOthers ==
    (orderOps = <<"bringToFront", "sendToBack">> /\ orderId \in Ids(orderIn)) =>
        Others(annotations, orderId) = Others(orderIn, orderId)

\* C10 witness: the middle one of three annotations went to the front and
\* then to the back, so both calls moved it.
C10_Witness ==
    /\ orderOps = <<"bringToFront", "sendToBack">>
    /\ Len(orderIn) = 3
    /\ orderIn[2].id = orderId
    /\ annotations[1].id = orderId

\* C11: moveForward(id) followed by moveBackward(id), for an id of the
\* sequence, returns the sequence to its original order, whatever the position
\* of id, the last one included.
C11_ForwardThenBackwardRestores ==
    (orderOps = <<"moveForward", "moveBackward">> /\ orderId \in Ids(orderIn)) =>
        annotations = orderIn

\* C11 as amended: the round trip restores the sequence unless id is the last
\* of two or more annotations; there moveForward changes nothing and
\* moveBackward exchanges the last two.
C11_ForwardThenBackwardUnlessLast ==
    (orderOps = <<"moveForward", "moveBackward">> /\ orderId \in Ids(orderIn)) =>
        LET n == Len(orderIn) IN
        IF n >= 2 /\ orderIn[n].id = orderId
        THEN Exchanged(annotations, orderIn, n, n - 1)
        ELSE annotations = orderIn

\* C11 witness: the middle one of three annotations went forward and back.
C11_Witness ==
    /\ orderOps = <<"moveForward", "moveBackward">>
    /\ Len(orderIn) = 3
    /\ orderIn[2].id = orderId
    /\ annotations = orderIn

\* the ids of a sequence, in order
IdSeq(anns) == [i \in 1..Len(anns) |-> anns[i].id]

\* C12: from the order [A, B, C], sendToBack(C) gives [C, A, B] and a
\* following moveForward(C) gives [A, C, B].
C12_ScenarioBackThenForward ==
    (Len(orderIn) = 3 /\ orderIn[3].id = orderId) =>
        LET A == orderIn[1].id
            B == orderIn[2].id
            C == orderIn[3].id
        IN
        /\ orderOps = <<"sendToBack">> => IdSeq(annotations) = <<C, A, B>>
        /\ orderOps = <<"sendToBack", "moveForward">> => IdSeq(annotations) = <<A, C, B>>

\* C12 witness: the scenario ran to its end.
C12_Witness ==
    /\ Len(orderIn) = 3
    /\ orderIn[3].id = orderId
    /\ orderOps = <<"sendToBack", "moveForward">>
    /\ annotations[2].id = orderId

-----------------------------------------------------------------------------
(* Properties of update and remove (SpecStore) *)

\* `out` is `in` with the fields of `updates` written to the entities whose id
\* is `id`; nothing else differs, in the same places
UpdatedOnly(out, in, id, updates) ==
    /\ Len(out) = Len(in)
    /\ \A i \in 1..Len(in) :
          IF in[i].id = id
          THEN /\ DOMAIN out[i] = DOMAIN in[i] \cup DOMAIN updates
               /\ \A f \in DOMAIN updates : out[i][f] = updates[f]
               /\ \A f \in DOMAIN in[i] \ DOMAIN updates : out[i][f] = in[i][f]
          ELSE out[i] = in[i]

\* C13: an update of annotations or comments (the controls' updateAnnotation,
\* the commit of a drag, updateComment, toggleResolveComment) changes only the
\* named fields of the entity with the id and keeps length and order; with an
\* id that is not present the sequence is unchanged.
C13_UpdateChangesNamedFieldsOnly ==
    [][/\ \A updates \in AnnotationUpdates :
             applyUpdateAnnotation(updates) =>
                 UpdatedOnly(annotations', annotations, orderId, updates)
       /\ applyCommitDrag =>
             UpdatedOnly(annotations', annotations, orderId, [x |-> 0, y |-> 100])
       /\ \A text \in Texts :
             applyUpdateComment(text) =>
                 UpdatedOnly(comments', comments, orderId, [text |-> text])
       /\ applyToggleResolveComment =>
             \A flag \in BOOLEAN :
                 (\E i \in 1..Len(comments) :
                     comments[i].id = orderId /\ comments[i].resolved = ~flag)
                 => UpdatedOnly(comments', comments, orderId, [resolved |-> flag])
       /\ (orderOps = << >> /\ orderOps' # << >>
             /\ orderOps'[1] \notin {"deleteAnnotation", "deleteComment"}) =>
             /\ orderId \notin Ids(annotations) => annotations' = annotations
             /\ orderId \notin Ids(comments) => comments' = comments]_vars

\* C13 witness: the second of two annotations got a new text, and nothing
\* else changed.
C13_Witness ==
    /\ orderOps = <<"updateAnnotation">>
    /\ Len(orderIn) = 2
    /\ orderIn[2].id = orderId
    /\ annotations[2].text = "Q3"
    /\ orderIn[2].text # "Q3"
    /\ annotations[1] = orderIn[1]

-----------------------------------------------------------------------------
(* Properties of the revision history (SpecHistory, SpecTrace, SpecJump) *)

\* the step in which a generation or an edit succeeds and pushes its revision
PushStep ==
    /\ pending # nullObj /\ pending.at = "ai"
    /\ pending' # nullObj /\ pending'.at = "save"

\* C15: every successful generation or edit puts the new revision at index
\* 0, keeps all earlier revisions in their order behind it (the length grows
\* by exactly one, nothing is truncated) and sets currentIndex to 0.
C15_PushKeepsEarlierRevisions ==
    [][PushStep =>
          /\ Len(history') = Len(history) + 1
          /\ SubSeq(history', 2, Len(history')) = history
          /\ history'[1].data \in Images
          /\ currentIndex' = 0]_vars

\* C16: whenever the history is non-empty, 0 <= currentIndex < history.length.
C16_CursorInRange ==
    Len(history) > 0 => (0 <= currentIndex /\ currentIndex < Len(history))

\* C16 witness: the cursor is on the oldest of three revisions.
C16_Witness ==
    /\ Len(history) = 3
    /\ currentIndex = 2

\* C17: navigating older on the oldest revision and navigating newer on the
\* newest one leave currentIndex unchanged; otherwise older increases it by
\* one and newer decreases it by one.
C17_OlderNewerSaturate ==
    [][/\ onUndo =>
             currentIndex' = IF currentIndex = Len(history) - 1
                             THEN currentIndex ELSE currentIndex + 1
       /\ onRedo =>
             currentIndex' = IF currentIndex = 0
                             THEN currentIndex ELSE currentIndex - 1]_vars

\* C17 witness: two steps older have put the cursor on the oldest of three
\* revisions, where the Previous Version button is without effect.
C17_Witness ==
    /\ orderOps = <<"load", "push", "older", "older">>
    /\ Len(history) = 3
    /\ currentIndex = 2
    /\ ~canUndo

C19_ScenarioPushPushOlderNewer ==
    [][loadProjectAt = "none" =>
          /\ (orderOps = << >> /\ orderOps' = <<"push">>) =>
                /\ history = << >>
                /\ Len(history') = 1
                /\ currentIndex' = 0
          /\ (orderOps = <<"push">> /\ orderOps' = <<"push", "push">>) =>
                /\ Len(history') = 2
                /\ history'[2] = history[1]
                /\ currentIndex' = 0
          /\ (orderOps = <<"push", "push">> /\ orderOps' = <<"push", "push", "older">>) =>
                /\ history' = history
                /\ currentIndex' = 1
                /\ At(history', currentIndex') = history[2]
          /\ (orderOps = <<"push", "push", "older">>
                /\ orderOps' = <<"push", "push", "older", "newer">>) =>
                /\ history' = history
                /\ currentIndex' = 0
                /\ At(history', currentIndex') = history[1]]_vars

\* C19 witness: the scenario ran to its end on a new project.
C19_Witness ==
    /\ loadProjectAt = "none"
    /\ orderOps = <<"push", "push", "older", "newer">>
    /\ Len(history) = 2
    /\ currentIndex = 0

-----------------------------------------------------------------------------
(* Properties of the export (SpecExport) *)

\* C20: the drawing calls of an export are the optional background fill,
\* then the base image, then exactly the annotations of the export (those on
\* display when it was requested) in store order, the last one drawn last;
\* no comment contributes a call.
C20_ExportDrawsInStoreOrder ==
    (exportAt # nullObj /\ exportAt.at = "done") =>
        LET anns == exportAt.annotations
            k == IF exportAt.fillBackground THEN 1 ELSE 0
        IN
        /\ Len(canvasOps) = k + 1 + Len(anns)
        /\ k = 1 => canvasOps[1].op = "fillRect"
        /\ canvasOps[k + 1].op = "drawImage"
        /\ canvasOps[k + 1].data = exportAt.image.data
        /\ \A i \in 1..Len(anns) :
              /\ canvasOps[k + 1 + i].op = "fillText"
              /\ canvasOps[k + 1 + i].text = anns[i].text
              /\ canvasOps[k + 1 + i].x * 100 = anns[i].x * exportAt.size.width
              /\ canvasOps[k + 1 + i].y * 100 = anns[i].y * exportAt.size.height
              /\ canvasOps[k + 1 + i].fillStyle = anns[i].color
        /\ (orderOps = << >>) => anns = annotations

\* C20 witness: a finished export with background of two annotations, drawn
\* bottom first, while a comment is on the canvas.
C20_Witness ==
    /\ exportAt # nullObj
    /\ exportAt.at = "done"
    /\ exportAt.fillBackground
    /\ Len(exportAt.annotations) = 2
    /\ Len(comments) >= 1
    /\ Len(canvasOps) = 4
    /\ canvasOps[3].text = annotations[1].text
    /\ canvasOps[4].text = annotations[2].text
    /\ canvasOps[3].text # canvasOps[4].text

\* C21: when the base image of an export fails to load, the export ends in
\* an error outcome (the catch of handleExport, which alerts the user); it
\* is not left waiting at the load.
C21_ImageLoadErrorEndsExport ==
    (exportAt # nullObj /\ exportAt.img = "error") => exportAt.at = "failed"

\* C22: a change of the active history index by undo, redo or a thumbnail
\* jump leaves the annotation and the comment sequence unchanged.
C22_NavigationKeepsOverlays ==
    [][(onUndo \/ onRedo \/ onJumpToHistory) => UNCHANGED <<annotations, comments>>]_vars

\* C22 witness: on a loaded project with an annotation and a comment, the
\* cursor was moved off the newest revision (only navigation does that) and
\* both are still there.
C22_Witness ==
    /\ loadProjectAt = "done"
    /\ currentIndex = 1
    /\ Len(annotations) = 1
    /\ Len(comments) = 1

-----------------------------------------------------------------------------
(* Properties of the end of the gesture (SpecRelease) *)

\* C26: when releasing the pointer capture throws at the end of a gesture,
\* the session is still cleared (isDragging false, live position null, cached
\* rect null) and the commit of the live position made before the release
\* attempt is kept.
C26_ReleaseErrorStillClears ==
    [][(isDragging /\ localDragState # nullObj /\ selectedAnnotationId # null
          /\ handlePointerUp(TRUE)) =>
          /\ ~isDragging' /\ localDragState' = nullObj /\ dragRectRef' = nullObj
          /\ annotations' = commitDrag(annotations, selectedAnnotationId, localDragState)]_vars

\* C26 witness: a gesture that moved the annotation ended with a release that
\* threw; no session is left and the annotation is off its start position.
C26_Witness ==
    /\ orderOps = <<"releaseThrows">>
    /\ ~isDragging /\ localDragState = nullObj /\ dragRectRef = nullObj
    /\ <<annotations[1].x, annotations[1].y>> # <<initialAnnPos.x, initialAnnPos.y>>

-----------------------------------------------------------------------------
(* Properties of the entities and of the gesture's bookkeeping (Spec) *)

\* C24: in every reachable state the ids of the annotations are pairwise
\* distinct, and so are the ids of the comments, whatever the clock readings
\* of the creations were.
C24_IdsUnique ==
    /\ \A i, j \in 1..Len(annotations) : i # j => annotations[i].id # annotations[j].id
    /\ \A i, j \in 1..Len(comments) : i # j => comments[i].id # comments[j].id

\* C25: a drag session and an active placement tool never coexist: in every
\* reachable state with an active session, activeTool is 'none'.
C25_NoToolWhileDragging == isDragging => activeTool = "none"

\* C27: the commit at the end of a gesture changes the position of the
\* annotation the session was opened on (the id the pointer-down stored in
\* the session) and of no other annotation, also when the selection changed
\* between pointer-down and pointer-up.
C27_CommitGoesToSessionTarget ==
    [][(isDragging /\ localDragState # nullObj /\ (onPointerUp \/ onPointerCancel)) =>
          \A i \in 1..Len(annotations) :
              annotations'[i] # annotations[i] => annotations[i].id = localDragState.id]_vars

-----------------------------------------------------------------------------
(* Properties of the project record (SpecSave) *)

\* nothing of the editor is in flight: no request to the store, no handler
\* at an await, no timer, no connection being simulated
Settled ==
    /\ saves = << >>
    /\ pending = nullObj
    /\ handleManualSaveAt = "none"
    /\ connecting = nullObj

\* C23: work is saved without the Save button: once nothing is in flight,
\* the stored record of the project holds the annotations and comments of
\* the editor
C23_OverlaysAreStored ==
    (Settled /\ (annotations # << >> \/ comments # << >>)) =>
        \E r \in projects :
            /\ r.canvasState.annotations = annotations
            /\ r.canvasState.comments = comments

\* C28: while handleGenerate or handleEdit awaits its save, the record of
\* that save holds the history of the editor, the new revision first
C28_SaveHoldsNewRevision ==
    (IF pending = nullObj THEN FALSE ELSE pending.at = "save") =>
        \E i \in 1..Len(saves) :
            /\ saves[i].by = "generate"
            /\ saves[i].p.history = history

\* the createProject requests in flight
CreatesInFlight == {i \in 1..Len(saves) : saves[i].op = "createProject"}

\* C29: in a session on a new project createProject is called at most once:
\* the records created and the createProject requests in flight are never
\* more than one
C29_CreateAtMostOnce ==
    Cardinality(projects) + Cardinality(CreatesInFlight) <= 1

\* C30: the step in which the image service fails leaves the history and
\* currentIndex as they are, sets an error message and ends the loading; a
\* call of handleEdit while the history is empty changes nothing
C30_FailureKeepsHistory ==
    [][/\ imageRejects =>
             /\ UNCHANGED <<history, currentIndex>>
             /\ error' # null
             /\ isLoading' = FALSE
       /\ (Len(history) = 0 /\ \E editPrompt \in EditPrompts : handleEdit(editPrompt)) =>
             UNCHANGED vars]_vars

\* an edit of the first revision has failed: the revision is still the only
\* one and the message of the edit is shown
C30_Witness ==
    /\ error = AiErrorMessage("edit")
    /\ ~isLoading /\ pending = nullObj
    /\ Len(history) = 1 /\ currentIndex = 0

====
